---- MODULE Spec2Model ----
(***************************************************************************)
(* Model of src/solve.py: build_graph loads an edge table into a directed  *)
(* graph whose edges carry an "Ingredient Rate"; get_ingredients computes, *)
(* for a recipe and an output quantity, the total amount of every          *)
(* ingredient by summing rate products over all simple edge paths.         *)
(*                                                                         *)
(* Two specifications:                                                     *)
(*   Spec      - get_ingredients is one atomic action (the function is     *)
(*               synchronous and single-threaded); used for the claims     *)
(*               about its result.                                         *)
(*   StepSpec  - the body of get_ingredients step by step (the for loop of *)
(*               line 76 and the depth-first enumeration behind            *)
(*               nx.all_simple_edge_paths), with weak fairness of the      *)
(*               steps; used for termination.                              *)
(*                                                                         *)
(* Numbers are exact integers (Python ints are unbounded); floating-point  *)
(* rounding of float rates/quantities is outside the model.                *)
(***************************************************************************)
EXTENDS Integers, Sequences, FiniteSets

\* ---------------------------------------------------------------- bounds
\* Largest number of distinct edges the loaded table may hold (Spec).
MaxEdges == 3
\* "Ingredient Rate" values are drawn from 1..MaxRate (Spec).
MaxRate == 2
\* num_output values are drawn from 1..MaxOut (Spec).
MaxOut == 2
\* The same three bounds for StepSpec, whose runs are longer.
StepMaxEdges == 3
StepMaxRate == 1
StepMaxOut == 1

\* Node names the edge table may mention.
Nodes == {"A", "B", "C"}
\* A name that is never a node of the graph.
NoSuchRecipe == "NoSuchRecipe"
\* Order in which adjacency is iterated (a stand-in for insertion order).
NodeOrder == <<"A", "B", "C", "D">>

VARIABLES
    graph,        \* the nx.DiGraph: [nodes |-> set, rate |-> [edge -> rate]]
    pc,           \* "build" | "loop" | "dfs" | "returned" | "raised"
    recipe,       \* argument of the current/last call
    num_output,   \* argument of the current/last call
    sg,           \* local sg of get_ingredients
    ingredients,  \* local dict ingredients; the returned dict once pc = "returned"
    error,        \* class of the exception that left get_ingredients, or ""
    todo,         \* StepSpec: keys of ingredients the for loop has not visited
    ing,          \* StepSpec: loop variable of line 76
    visited,      \* StepSpec: the nodes of the current DFS path, in order
    stack,        \* StepSpec: per DFS level, the children not yet tried
    paths         \* StepSpec: local list paths (line 77), node paths

vars == <<graph, pc, recipe, num_output, sg, ingredients, error,
          todo, ing, visited, stack, paths>>

\* ------------------------------------------------------------ data model
EmptyMap == [x \in {} |-> 0]
EmptyGraph == [nodes |-> {}, rate |-> EmptyMap]

\* The worked example of the documentation: A->B (2), A->C (3), B->D (5), C->D (7).
Diamond ==
    [nodes |-> {"A", "B", "C", "D"},
     rate  |-> [e \in {<<"A", "B">>, <<"A", "C">>, <<"B", "D">>, <<"C", "D">>} |->
                   IF e = <<"A", "B">> THEN 2
                   ELSE IF e = <<"A", "C">> THEN 3
                   ELSE IF e = <<"B", "D">> THEN 5 ELSE 7]]

Edges(g) == DOMAIN g.rate
Range(s) == {s[i] : i \in 1..Len(s)}

\* nx.from_pandas_edgelist: one row = one edge; both endpoints become nodes and
\* a repeated (Recipe, Ingredient) pair overwrites the edge attribute.
add_edge(g, u, v, r) ==
    [nodes |-> g.nodes \cup {u, v},
     rate  |-> [e \in Edges(g) \cup {<<u, v>>} |->
                   IF e = <<u, v>> THEN r ELSE g.rate[e]]]

\* G[u]: the successors of u, in adjacency order.
Succ(g, u) == {v \in g.nodes : <<u, v>> \in Edges(g)}
OrderedSucc(g, u) == SelectSeq(NodeOrder, LAMBDA v : v \in Succ(g, u))

\* nx.predecessor / nx.all_simple_edge_paths: "if source not in G: raise NodeNotFound".
NodeNotFoundNever(g, source) == FALSE
NodeNotFound(g, source) == source \notin g.nodes

\* nx.predecessor(G, source): breadth-first search along out-edges, level by
\* level; the keys of the returned dict are the nodes seen (source included).
RECURSIVE BFS(_, _, _)
BFS(g, seen, thislevel) ==
    IF thislevel = {} THEN seen
    ELSE LET nextlevel == {w \in g.nodes : w \notin seen /\ \E v \in thislevel : w \in Succ(g, v)}
         IN  BFS(g, seen \cup nextlevel, nextlevel)

PredecessorDirectOnly(g, source) == {source} \cup Succ(g, source)
PredecessorUndirected(g, source) ==
    BFS([nodes |-> g.nodes,
         rate  |-> [e \in Edges(g) \cup {<<x[2], x[1]>> : x \in Edges(g)} |-> 1]],
        {source}, {source})
PredecessorAll(g, source) == g.nodes \cup {source}
Predecessor(g, source) == BFS(g, {source}, {source})

\* nx.subgraph(G, nbunch): the nodes of nbunch that are in G, and the edges of G
\* with both endpoints among them (a read-only view of G).
Subgraph(g, ns) ==
    [nodes |-> g.nodes \cap ns,
     rate  |-> [e \in {x \in Edges(g) : x[1] \in ns /\ x[2] \in ns} |-> g.rate[e]]]

\* The depth-first enumeration of simple paths with a single target: children of
\* the last visited node are tried in order; a child already on the path is
\* skipped; reaching the target yields the path and does not go deeper.
RECURSIVE DFS(_, _, _, _)
DFS(g, vis, children, target) ==
    IF children = <<>> THEN <<>>
    ELSE LET child == Head(children)
             rest  == DFS(g, vis, Tail(children), target)
         IN  IF child \in Range(vis) THEN rest
             ELSE IF child = target THEN <<Append(vis, child)>> \o rest
             ELSE DFS(g, Append(vis, child), OrderedSucc(g, child), target) \o rest

\* list(zip(path[:-1], path[1:])): a node path as its sequence of edges.
EdgePath(np) == [i \in 1..(Len(np) - 1) |-> <<np[i], np[i + 1]>>]

\* nx.all_simple_edge_paths(sg, source, target). For source = target older
\* releases yield nothing and newer ones yield the one empty path; yieldsEmpty
\* selects between them.
AllSimpleEdgePathsFirstOnly(g, source, target, yieldsEmpty) ==
    IF source = target THEN (IF yieldsEmpty THEN << <<>> >> ELSE <<>>)
    ELSE LET nps == DFS(g, <<source>>, OrderedSucc(g, source), target)
         IN  IF nps = <<>> THEN <<>> ELSE <<EdgePath(nps[1])>>
AllSimpleEdgePaths(g, source, target, yieldsEmpty) ==
    IF source = target THEN (IF yieldsEmpty THEN << <<>> >> ELSE <<>>)
    ELSE LET nps == DFS(g, <<source>>, OrderedSucc(g, source), target)
         IN  [i \in 1..Len(nps) |-> EdgePath(nps[i])]

\* Lines 79-81: product = num_output; for u, v in path: product *= rate(u, v).
RECURSIVE MulRates(_, _, _)
MulRates(g, product, path) ==
    IF path = <<>> THEN product
    ELSE MulRates(g, product * g.rate[Head(path)], Tail(path))

PathProductUnscaled(g, n, path) == MulRates(g, 1, path)
PathProductLastEdge(g, n, path) ==
    IF path = <<>> THEN n ELSE n * g.rate[path[Len(path)]]
PathProduct(g, n, path) == MulRates(g, n, path)

\* Lines 78-82 for one ingredient: the running total after all its paths.
RECURSIVE AddPaths(_, _, _, _)
AddPaths(g, n, total, ps) ==
    IF ps = <<>> THEN total
    ELSE AddPaths(g, n, total + PathProduct(g, n, Head(ps)), Tail(ps))

\* Lines 74-75: one entry per node of sg, 0, and num_output for the recipe.
InitIngredients(s, r, n) ==
    [x \in s.nodes \cup {r} |-> IF x = r THEN n ELSE 0]

\* Line 84: del ingredients[recipe].
DelKeyNoop(d, k) == d
DelKey(d, k) == [x \in (DOMAIN d) \ {k} |-> d[x]]

\* Lines 72-85 on a recipe that is a node of g.
GetIngredients(g, r, n, yieldsEmpty) ==
    LET p    == Predecessor(g, r)
        s    == Subgraph(g, p)
        init == InitIngredients(s, r, n)
        full == [x \in DOMAIN init |->
                    AddPaths(s, n, init[x], AllSimpleEdgePaths(s, r, x, yieldsEmpty))]
    IN  DelKey(full, r)

\* ------------------------------------------------------------------ Init
Init ==
    /\ graph \in {EmptyGraph, Diamond}
    /\ pc = "build"
    /\ recipe = ""
    /\ num_output = 0
    /\ sg = EmptyGraph
    /\ ingredients = EmptyMap
    /\ error = ""
    /\ todo = {}
    /\ ing = ""
    /\ visited = <<>>
    /\ stack = <<>>
    /\ paths = <<>>

stepVars == <<todo, ing, visited, stack, paths>>

\* --------------------------------------------------------------- actions
\* build_graph (lines 20-24), one row of the table at a time.
build_graph(u, v, r, limit) ==
    /\ pc = "build"
    /\ Cardinality(Edges(graph) \cup {<<u, v>>}) <= limit
    /\ graph' = add_edge(graph, u, v, r)
    /\ UNCHANGED <<pc, recipe, num_output, sg, ingredients, error, stepVars>>

\* A variant that prunes the caller's graph in place instead of taking a view.
get_ingredients_inplace(r, n) ==
    /\ pc \in {"build", "raised"}
    /\ recipe' = r
    /\ num_output' = n
    /\ IF NodeNotFound(graph, r)
       THEN /\ pc' = "raised"
            /\ error' = "NodeNotFound"
            /\ sg' = EmptyGraph
            /\ ingredients' = EmptyMap
            /\ graph' = graph
       ELSE /\ pc' = "returned"
            /\ error' = ""
            /\ sg' = Subgraph(graph, Predecessor(graph, r))
            /\ \E yieldsEmpty \in BOOLEAN :
                   ingredients' = GetIngredients(graph, r, n, yieldsEmpty)
            /\ graph' = Subgraph(graph, Predecessor(graph, r))
    /\ UNCHANGED stepVars

\* get_ingredients (lines 72-85) as one atomic call: line 102 calls it once the
\* graph is built; a caller that catches the error may ask again.
get_ingredients(r, n) ==
    /\ pc \in {"build", "raised"}
    /\ recipe' = r
    /\ num_output' = n
    /\ IF NodeNotFound(graph, r)
       THEN /\ pc' = "raised"
            /\ error' = "NodeNotFound"
            /\ sg' = EmptyGraph
            /\ ingredients' = EmptyMap
       ELSE /\ pc' = "returned"
            /\ error' = ""
            /\ sg' = Subgraph(graph, Predecessor(graph, r))
            /\ \E yieldsEmpty \in BOOLEAN :
                   ingredients' = GetIngredients(graph, r, n, yieldsEmpty)
    /\ UNCHANGED <<graph, stepVars>>

Next ==
    \/ \E u \in Nodes, v \in Nodes, r \in 1..MaxRate : build_graph(u, v, r, MaxEdges)
    \/ \E r \in Nodes \cup {"D", NoSuchRecipe}, n \in 1..MaxOut : get_ingredients(r, n)

Spec == Init /\ [][Next]_vars

\* ------------------------------------------ get_ingredients step by step
Pop(s) == SubSeq(s, 1, Len(s) - 1)
Top(s) == s[Len(s)]

\* Lines 72-75: the closure, the subgraph and the seeded accumulator.
Enter(r, n) ==
    /\ pc \in {"build", "raised"}
    /\ recipe' = r
    /\ num_output' = n
    /\ ing' = ""
    /\ visited' = <<>>
    /\ stack' = <<>>
    /\ paths' = <<>>
    /\ IF NodeNotFound(graph, r)
       THEN /\ pc' = "raised"
            /\ error' = "NodeNotFound"
            /\ sg' = EmptyGraph
            /\ ingredients' = EmptyMap
            /\ todo' = {}
       ELSE /\ pc' = "loop"
            /\ error' = ""
            /\ sg' = Subgraph(graph, Predecessor(graph, r))
            /\ ingredients' = InitIngredients(sg', r, n)
            /\ todo' = DOMAIN ingredients'
    /\ UNCHANGED graph

\* Line 76, and the start of the enumeration of line 77: the next key of the
\* dict (its order is the insertion order of the table, which graph does not
\* record: any order), visited = [source], stack = [iter(G[source])].
ForIng ==
    /\ pc = "loop"
    /\ \E x \in todo :
        /\ ing' = x
        /\ todo' = todo \ {x}
        /\ IF x = recipe
           THEN /\ visited' = <<>>
                /\ stack' = <<>>
                /\ \E yieldsEmpty \in BOOLEAN :
                       paths' = AllSimpleEdgePaths(sg, recipe, x, yieldsEmpty)
           ELSE /\ visited' = <<recipe>>
                /\ stack' = <<OrderedSucc(sg, recipe)>>
                /\ paths' = <<>>
    /\ pc' = "dfs"
    /\ UNCHANGED <<graph, recipe, num_output, sg, ingredients, error>>

\* A variant whose skip of a child already on the path does not advance the iterator.
DfsStepNoAdvance ==
    /\ pc = "dfs"
    /\ stack # <<>>
    /\ LET children == Top(stack)
           child    == Head(children)
           advanced == Append(Pop(stack), Tail(children))
       IN  IF children = <<>>
           THEN /\ stack' = Pop(stack)
                /\ visited' = Pop(visited)
                /\ paths' = paths
           ELSE IF child \in Range(visited)
           THEN /\ stack' = stack
                /\ UNCHANGED <<visited, paths>>
           ELSE IF child = ing
           THEN /\ stack' = advanced
                /\ paths' = Append(paths, EdgePath(Append(visited, child)))
                /\ visited' = visited
           ELSE /\ stack' = Append(advanced, OrderedSucc(sg, child))
                /\ visited' = Append(visited, child)
                /\ paths' = paths
    /\ UNCHANGED <<graph, pc, recipe, num_output, sg, ingredients, error, todo, ing>>

\* Line 77, one turn of the enumeration's while loop: take the next child of the
\* deepest node; none left: backtrack; on the path already: skip; the target:
\* yield the path; otherwise descend into it.
DfsStep ==
    /\ pc = "dfs"
    /\ stack # <<>>
    /\ LET children == Top(stack)
           child    == Head(children)
           advanced == Append(Pop(stack), Tail(children))
       IN  IF children = <<>>
           THEN /\ stack' = Pop(stack)
                /\ visited' = Pop(visited)
                /\ paths' = paths
           ELSE IF child \in Range(visited)
           THEN /\ stack' = advanced
                /\ UNCHANGED <<visited, paths>>
           ELSE IF child = ing
           THEN /\ stack' = advanced
                /\ paths' = Append(paths, EdgePath(Append(visited, child)))
                /\ visited' = visited
           ELSE /\ stack' = Append(advanced, OrderedSucc(sg, child))
                /\ visited' = Append(visited, child)
                /\ paths' = paths
    /\ UNCHANGED <<graph, pc, recipe, num_output, sg, ingredients, error, todo, ing>>

\* Lines 78-82, once the enumeration is exhausted: add every path's product.
SumPaths ==
    /\ pc = "dfs"
    /\ stack = <<>>
    /\ ingredients' = [ingredients EXCEPT ![ing] = AddPaths(sg, num_output, @, paths)]
    /\ pc' = "loop"
    /\ UNCHANGED <<graph, recipe, num_output, sg, error, todo, ing, visited, stack, paths>>

\* Lines 84-85, after the last key.
Return ==
    /\ pc = "loop"
    /\ todo = {}
    /\ ingredients' = DelKey(ingredients, recipe)
    /\ pc' = "returned"
    /\ UNCHANGED <<graph, recipe, num_output, sg, error, todo, ing, visited, stack, paths>>

Body == ForIng \/ DfsStep \/ SumPaths \/ Return

StepNext ==
    \/ \E u \in Nodes, v \in Nodes, r \in 1..StepMaxRate : build_graph(u, v, r, StepMaxEdges)
    \/ \E r \in Nodes \cup {NoSuchRecipe}, n \in 1..StepMaxOut : Enter(r, n)
    \/ ForIng
    \/ DfsStep
    \/ SumPaths
    \/ Return

\* The interpreter keeps executing the body of a call that has started.
StepSpec == Init /\ [][StepNext]_vars /\ WF_vars(Body)

\* ------------------------------------------------- reference definitions
\* Graph-theoretic notions the properties are stated with; none of them is
\* used by the actions above.
ProdRange(f, n) ==
    LET P[i \in 0..n] == IF i = 0 THEN 1 ELSE P[i - 1] * f[i] IN P[n]

RECURSIVE SumOver(_, _)
SumOver(S, f) ==
    IF S = {} THEN 0
    ELSE LET x == CHOOSE y \in S : TRUE IN f[x] + SumOver(S \ {x}, f)

\* All simple directed paths from s to t, as sequences of at least two distinct nodes.
SimpleNodePaths(g, s, t) ==
    {p \in UNION {[1..k -> g.nodes] : k \in 2..Cardinality(g.nodes)} :
        /\ p[1] = s
        /\ p[Len(p)] = t
        /\ \A i \in 1..Len(p), j \in 1..Len(p) : p[i] = p[j] => i = j
        /\ \A i \in 1..(Len(p) - 1) : <<p[i], p[i + 1]>> \in Edges(g)}

\* n times the product of the rates of the edges of node path p.
RateProduct(g, n, p) ==
    n * ProdRange([i \in 1..(Len(p) - 1) |-> g.rate[<<p[i], p[i + 1]>>]], Len(p) - 1)

\* The sum of the rate products over all simple paths from s to t.
PathSum(g, s, t, n) ==
    LET ps == SimpleNodePaths(g, s, t)
    IN  SumOver(ps, [p \in ps |-> RateProduct(g, n, p)])

\* Least set containing S and closed under successors / under predecessors.
RECURSIVE DownClosure(_, _)
DownClosure(g, S) ==
    LET T == S \cup {v \in g.nodes : \E u \in S : <<u, v>> \in Edges(g)}
    IN  IF T = S THEN S ELSE DownClosure(g, T)
RECURSIVE UpClosure(_, _)
UpClosure(g, S) ==
    LET T == S \cup {u \in g.nodes : \E v \in S : <<u, v>> \in Edges(g)}
    IN  IF T = S THEN S ELSE UpClosure(g, T)

\* Nodes reachable from r, r included; nodes from which r is reachable, r included.
DescendantClosure(g, r) == DownClosure(g, {r})
AncestorClosure(g, r) == UpClosure(g, {r})

OnCycle(g, v) == v \in DownClosure(g, Succ(g, v))
Acyclic(g) == \A v \in g.nodes : ~OnCycle(g, v)

Returned == pc = "returned"

\* ---------------------------------------------------------------- claims
\* C1: every returned value is the sum, over all simple directed paths from
\* recipe to the ingredient in the query subgraph, of num_output times the
\* product of the rates of the path's edges.
C1_PathSum ==
    Returned => \A x \in DOMAIN ingredients :
                    ingredients[x] = PathSum(sg, recipe, x, num_output)
\* The documented diamond: A produces B = 2, C = 3, D = 2*5 + 3*7 = 31.
C1_Witness ==
    /\ Returned /\ graph = Diamond /\ recipe = "A" /\ num_output = 1
    /\ DOMAIN ingredients = {"B", "C", "D"}
    /\ ingredients["B"] = 2 /\ ingredients["C"] = 3 /\ ingredients["D"] = 31

\* C2 as stated: the key set of the result is the ancestor closure of recipe
\* (the nodes from which recipe is reachable) minus recipe.
C2_AncestorKeys ==
    Returned => DOMAIN ingredients = AncestorClosure(graph, recipe) \ {recipe}
\* C2 as amended: the key set of the result is the closure of recipe under
\* recipe -> ingredient edges (the nodes reachable from recipe) minus recipe.
C2_DescendantKeys ==
    Returned => DOMAIN ingredients = DescendantClosure(graph, recipe) \ {recipe}
\* A call whose recipe has both a proper ancestor and a proper descendant.
C2_Witness ==
    /\ Returned
    /\ DOMAIN ingredients # {}
    /\ AncestorClosure(graph, recipe) \ DescendantClosure(graph, recipe) # {}

\* C3: the keys of the result are exactly the nodes other than recipe to which
\* a directed path leads from recipe; a node without such a path is no key.
C3_ReachableKeys ==
    Returned =>
        /\ \A v \in graph.nodes \ {recipe} :
               v \in DOMAIN ingredients <=> SimpleNodePaths(graph, recipe, v) # {}
        /\ DOMAIN ingredients \subseteq graph.nodes \ {recipe}
\* A call that covers some node and leaves an unreachable one out.
C3_Witness ==
    /\ Returned
    /\ DOMAIN ingredients # {}
    /\ \E v \in graph.nodes \ {recipe} : v \notin DOMAIN ingredients

\* C4: recipe is never a key of its own result, also on cycles and self-loops.
C4_NoSelfEntry == Returned => recipe \notin DOMAIN ingredients
\* A returned call whose recipe lies on a directed cycle.
C4_Witness == Returned /\ OnCycle(graph, recipe) /\ DOMAIN ingredients # {}

\* C5: the result for quantity k has the keys of the result for quantity 1 and
\* k times its values.
C5_Scaling ==
    Returned =>
        \A yieldsEmpty \in BOOLEAN :
            LET unit == GetIngredients(graph, recipe, 1, yieldsEmpty)
            IN  /\ DOMAIN ingredients = DOMAIN unit
                /\ \A x \in DOMAIN unit : ingredients[x] = num_output * unit[x]
\* A call with quantity 2 on an ingredient reached along two paths.
C5_Witness ==
    /\ Returned /\ num_output = 2
    /\ \E x \in DOMAIN ingredients : Cardinality(SimpleNodePaths(graph, recipe, x)) >= 2

\* C6: a call whose recipe is not a node of the graph ends in the NodeNotFound
\* error and returns no mapping.
C6_UnknownRecipeRaises ==
    (pc \in {"returned", "raised"} /\ recipe \notin graph.nodes) =>
        (pc = "raised" /\ error = "NodeNotFound" /\ ingredients = EmptyMap)
\* A failed call on a graph that has nodes.
C6_Witness == pc = "raised" /\ recipe = NoSuchRecipe /\ graph.nodes # {}

\* C7: no step of a call, successful or failing, changes the graph.
C7_GraphUnchanged == [][pc' # "build" => graph' = graph]_vars
\* A call has returned a result for a recipe that does not reach the whole graph.
C7_Witness == Returned /\ sg.nodes # graph.nodes /\ DOMAIN ingredients # {}

\* C9: every key of the result has at least one simple path from recipe in the
\* query subgraph, and its value is positive (rates and quantity are positive).
C9_EveryKeyHasAPath ==
    Returned =>
        /\ DOMAIN ingredients = sg.nodes \ {recipe}
        /\ \A x \in DOMAIN ingredients :
               /\ Len(AllSimpleEdgePaths(sg, recipe, x, FALSE)) >= 1
               /\ ingredients[x] >= 1
\* A result with keys, for a recipe that has ancestors left out of it.
C9_Witness ==
    /\ Returned
    /\ Cardinality(DOMAIN ingredients) >= 2
    /\ AncestorClosure(graph, recipe) # {recipe}

\* C10: on an acyclic query subgraph every value is the sum, over the edges
\* u -> ing, of need(u) * rate(u, ing), where need(recipe) is num_output and
\* need(u) is the result for u otherwise.
C10_DemandPropagation ==
    (Returned /\ Acyclic(sg)) =>
        LET need == [u \in sg.nodes |-> IF u = recipe THEN num_output ELSE ingredients[u]]
        IN  \A x \in DOMAIN ingredients :
                LET us == {u \in sg.nodes : <<u, x>> \in Edges(sg)}
                IN  ingredients[x] = SumOver(us, [u \in us |-> need[u] * sg.rate[<<u, x>>]])
\* An acyclic result in which some ingredient is consumed by two nodes.
C10_Witness ==
    /\ Returned /\ Acyclic(sg)
    /\ \E x \in DOMAIN ingredients :
           Cardinality({u \in sg.nodes : <<u, x>> \in Edges(sg)}) >= 2

\* C8: every call on a finite graph, cyclic or not, runs to its return: the
\* enumeration of simple paths and the loop over the accumulator complete.
C8_Terminates == (pc \in {"loop", "dfs"}) ~> (pc = "returned")
\* A call has returned although its query subgraph holds a directed cycle.
C8_Witness == Returned /\ ~Acyclic(sg) /\ Cardinality(sg.nodes) >= 2

\* The step-by-step body returns what the atomic call returns.
StepRefinesAtomic ==
    Returned => \E yieldsEmpty \in BOOLEAN :
                    ingredients = GetIngredients(graph, recipe, num_output, yieldsEmpty)
\* The path under construction never repeats a node and stays within sg.
StepPathSimple ==
    /\ Cardinality(Range(visited)) = Len(visited)
    /\ Range(visited) \subseteq sg.nodes
    /\ Len(stack) = Len(visited)

====
